---- MODULE Spec2Model ----
(***************************************************************************)
(* Model of audio_pipeline.py: AudioPipeline (load_config,                 *)
(* load_audio_files, the combination step of run, apply_effects,           *)
(* save_audio) and main.                                                   *)
(*                                                                         *)
(* An audio buffer (pydub AudioSegment) is a sequence of samples, one per  *)
(* millisecond.  A sample is the set of voices that sound in it; a voice   *)
(* <<coll, k, f, t, g>> is millisecond t of file f, loaded as entry k of   *)
(* the configured list coll, with an accumulated gain of g tenths of dB.   *)
(* len(buffer) is the duration in ms, and a buffer of length 0 is falsy.   *)
(***************************************************************************)
EXTENDS Integers, Sequences, FiniteSets, TLC

\* Longest file, in ms.  File f >= 0 decodes to a buffer of f ms.
MaxDur == 2
\* Largest number of entries (list items and scalar keys) in the configuration document.
MaxItems == 3

VARIABLES
    config_file,           \* the configuration document on disk: [status, doc]
    input_exists,          \* os.path.exists(input_folder)
    out_dir_exists,        \* os.path.exists(output_folder); the run starts without one
    config,                \* self.config
    mix_segments,          \* self.mix_segments
    concatenate_segments,  \* self.concatenate_segments
    audio_segments,        \* self.audio_segments
    mixed_audio,           \* run's local mixed_audio
    concatenated_audio,    \* run's local concatenated_audio
    result,                \* self.result
    pc,                    \* position of main/run
    status,                \* what main's caller sees: "running", "returned", "raised"
    decode_attempts,       \* AudioSegment.from_file calls so far, in order
    effects_input,         \* the buffer apply_effects was called with, if it was
    save_calls,            \* number of times save_audio was entered
    exports                \* audio.export calls so far, in order

vars == <<config_file, input_exists, out_dir_exists, config, mix_segments,
          concatenate_segments, audio_segments, mixed_audio, concatenated_audio,
          result, pc, status, decode_attempts, effects_input, save_calls, exports>>

----------------------------------------------------------------------------
\* Values

\* Python's None and a present value, as sequences of length 0 and 1.
None == <<>>

Some(x) == <<x>>

\* A key that the configuration document does not contain.
Absent == "<absent>"

\* dict.get(key, default) for a scalar key
Get(value, default) == IF value = Absent THEN default ELSE value

\* A file name that AudioSegment.from_file cannot decode.
Corrupt == -1

FileNames == {Corrupt} \cup (0..MaxDur)

Decodable(f) == f >= 0

\* An output format whose encoder fails.
Formats == {"mp3", "wav", "xyz"}

Encodable(fmt) == fmt # "xyz"

\* The effect specifications a configuration may list (gains in tenths of dB).
EffectSpecs ==
    { [type |-> "volume", gain |-> 30],
      [type |-> "speed", factor |-> 2],
      [type |-> "fade", fade_in |-> 1, fade_out |-> 1],
      [type |-> "reverse"],
      [type |-> "normalize"],
      [type |-> "repeat", times |-> 0],
      [type |-> "repeat", times |-> 2],
      [type |-> "echo"] }

\* effect.get(key, default)
Param(effect, key, default) == IF key \in DOMAIN effect THEN effect[key] ELSE default

----------------------------------------------------------------------------
\* pydub.AudioSegment operations used by the pipeline

\* AudioSegment.from_file: entry k of list coll, naming file f
from_file(coll, k, f) == [t \in 1..f |-> {<<coll, k, f, t, 0>>}]

\* bool(buffer): AudioSegment defines __len__ and no __bool__
Truthy(opt) == opt # None /\ Len(opt[1]) > 0

\* base.overlay(seg): seg summed onto base from offset 0; the result has base's length
overlay(base, seg) ==
    [i \in 1..Len(base) |-> IF i <= Len(seg) THEN base[i] \cup seg[i] ELSE base[i]]

\* Mutant: the operands of + are swapped
append_Swapped(a, b) == b \o a

\* a + b for two buffers: append with no crossfade
append(a, b) == a \o b

\* buffer + gain (apply_gain)
apply_gain(audio, gain) ==
    [i \in 1..Len(audio) |-> {<<v[1], v[2], v[3], v[4], v[5] + gain>> : v \in audio[i]}]

\* The largest element of a non-empty set of integers
SetMax(S) == CHOOSE m \in S : \A n \in S : n <= m

\* The gains of all voices of a buffer
Gains(audio) == {v[5] : v \in UNION {audio[i] : i \in 1..Len(audio)}}

\* Sample i of the buffer with the gain of each of its voices changed by delta
Attenuate(sample, delta) == {<<v[1], v[2], v[3], v[4], v[5] + delta>> : v \in sample}

\* audio.fade_in(d): a ramp from -120 dB over the first d ms
fade_in(audio, d) ==
    [i \in 1..Len(audio) |->
        IF i <= d THEN Attenuate(audio[i], -((1200 * (d - i + 1)) \div d)) ELSE audio[i]]

\* audio.fade_out(d): a ramp to -120 dB over the last d ms
fade_out(audio, d) ==
    [i \in 1..Len(audio) |->
        IF i > Len(audio) - d
            THEN Attenuate(audio[i], -((1200 * (i - (Len(audio) - d) - 1)) \div d))
            ELSE audio[i]]

\* pydub.effects.normalize: silence is returned as it is, otherwise the
\* loudest voice is brought to headroom below full scale
normalize(audio, headroom) ==
    IF Gains(audio) = {} THEN audio
    ELSE apply_gain(audio, (0 - headroom) - SetMax(Gains(audio)))

\* audio.reverse()
reverse(audio) == [i \in 1..Len(audio) |-> audio[Len(audio) - i + 1]]

\* audio * times
repeat(audio, times) ==
    [i \in 1..(Len(audio) * times) |-> audio[((i - 1) % Len(audio)) + 1]]

\* _spawn with frame_rate * factor, then set_frame_rate back: the buffer is
\* played factor times faster and resampled
resample(audio, factor) ==
    [i \in 1..(Len(audio) \div factor) |-> audio[(i - 1) * factor + 1]]

----------------------------------------------------------------------------
\* The effect methods of AudioPipeline

apply_volume_effect(audio, params) == apply_gain(audio, Param(params, "gain", 0))

apply_speed_effect(audio, params) == resample(audio, Param(params, "factor", 1))

apply_fade_effect(audio, params) ==
    LET fi == Param(params, "fade_in", 0)
        fo == Param(params, "fade_out", 0)
        r1 == IF fi > 0 THEN fade_in(audio, fi) ELSE audio
    IN  IF fo > 0 THEN fade_out(r1, fo) ELSE r1

apply_reverse_effect(audio, params) == reverse(audio)

apply_normalize_effect(audio, params) == normalize(audio, Param(params, "headroom", 1))

apply_repeat_effect(audio, params) == repeat(audio, Param(params, "times", 1))

\* The keys of apply_effects' dispatch table
effect_functions == {"volume", "speed", "fade", "reverse", "normalize", "repeat"}

\* effect_functions[effect_type](result, effect)
Dispatch(effect_type, audio, effect) ==
    CASE effect_type = "volume"    -> apply_volume_effect(audio, effect)
      [] effect_type = "speed"     -> apply_speed_effect(audio, effect)
      [] effect_type = "fade"      -> apply_fade_effect(audio, effect)
      [] effect_type = "reverse"   -> apply_reverse_effect(audio, effect)
      [] effect_type = "normalize" -> apply_normalize_effect(audio, effect)
      [] effect_type = "repeat"    -> apply_repeat_effect(audio, effect)

\* One iteration of apply_effects' loop
EffectStep(res, effect) ==
    LET effect_type == Param(effect, "type", Absent)
    IN  IF effect_type \in effect_functions
            THEN Dispatch(effect_type, res, effect)
            ELSE res

\* Mutant: the loop ends at the first effect of unknown type
RECURSIVE EffectLoop_BreakOnUnknown(_, _, _)
EffectLoop_BreakOnUnknown(res, effects, i) ==
    IF i > Len(effects) THEN res
    ELSE IF Param(effects[i], "type", Absent) \notin effect_functions THEN res
    ELSE EffectLoop_BreakOnUnknown(EffectStep(res, effects[i]), effects, i + 1)

\* apply_effects' loop from effect i on, res being the buffer so far
RECURSIVE EffectLoop(_, _, _)
EffectLoop(res, effects, i) ==
    IF i > Len(effects) THEN res
    ELSE EffectLoop(EffectStep(res, effects[i]), effects, i + 1)

apply_effects(audio, effects) == EffectLoop(audio, effects, 1)

----------------------------------------------------------------------------
\* Combination

\* mixed = segments[0]; for audio in segments[1:]: mixed = mixed.overlay(audio)
RECURSIVE MixLoop(_, _, _)
MixLoop(mixed, segments, i) ==
    IF i > Len(segments) THEN mixed
    ELSE MixLoop(overlay(mixed, segments[i]), segments, i + 1)

\* result = segments[0]; for audio in segments[1:]: result += audio
RECURSIVE ConcatLoop(_, _, _)
ConcatLoop(res, segments, i) ==
    IF i > Len(segments) THEN res
    ELSE ConcatLoop(append(res, segments[i]), segments, i + 1)

\* AudioPipeline.mix_audio_files
mix_audio_files(segments) ==
    IF segments = <<>> THEN None ELSE Some(MixLoop(segments[1], segments, 2))

\* AudioPipeline.concatenate_audio_files
concatenate_audio_files(segments) ==
    IF segments = <<>> THEN None ELSE Some(ConcatLoop(segments[1], segments, 2))

----------------------------------------------------------------------------
\* The configuration document and the initial state

\* A document with no keys (yaml.safe_load never ran to completion)
EmptyDoc ==
    [mix_files |-> <<>>, concatenate_files |-> <<>>, audio_files |-> <<>>,
     combine_method |-> Absent, final_combine_method |-> Absent,
     effects |-> <<>>, has_output_formats |-> FALSE, output_formats |-> <<>>,
     output_name |-> Absent]

\* 1 for a scalar key the document contains
Present(value) == IF value = Absent THEN 0 ELSE 1

\* Number of entries of a document: list items and scalar keys
Items(doc) ==
    Len(doc.mix_files) + Len(doc.concatenate_files) + Len(doc.audio_files)
    + Len(doc.effects) + Len(doc.output_formats)
    + Present(doc.combine_method) + Present(doc.final_combine_method)
    + Present(doc.output_name)

\* The documents with n1 mix_files, n2 concatenate_files, n3 audio_files,
\* n4 effects and n5 output_formats (n5 = -1: the key is absent)
DocsOfShape(n1, n2, n3, n4, n5) ==
    { [mix_files |-> mf, concatenate_files |-> cf, audio_files |-> af,
       combine_method |-> cm, final_combine_method |-> fcm,
       effects |-> ef, has_output_formats |-> (n5 >= 0), output_formats |-> of,
       output_name |-> on] :
        mf \in [1..n1 -> FileNames], cf \in [1..n2 -> FileNames],
        af \in [1..n3 -> FileNames], ef \in [1..n4 -> EffectSpecs],
        of \in [1..n5 -> Formats],
        cm \in {Absent, "mix", "concatenate"},
        fcm \in {Absent, "overlay", "concatenate"},
        on \in {Absent, "out"} }

Init ==
    /\ \/ \E n1 \in 0..MaxItems :
          \E n2 \in 0..(MaxItems - n1) :
          \E n3 \in 0..(MaxItems - n1 - n2) :
          \E n4 \in 0..(MaxItems - n1 - n2 - n3) :
          \E n5 \in -1..(MaxItems - n1 - n2 - n3 - n4) :
          \E doc \in DocsOfShape(n1, n2, n3, n4, n5) :
             /\ Items(doc) <= MaxItems
             /\ config_file = [status |-> "ok", doc |-> doc]
       \/ config_file \in {[status |-> "missing", doc |-> EmptyDoc],
                           [status |-> "invalid", doc |-> EmptyDoc]}
    /\ input_exists \in BOOLEAN
    /\ out_dir_exists = FALSE
    /\ config = None
    /\ mix_segments = <<>>
    /\ concatenate_segments = <<>>
    /\ audio_segments = <<>>
    /\ mixed_audio = None
    /\ concatenated_audio = None
    /\ result = None
    /\ pc = "Init"
    /\ status = "running"
    /\ decode_attempts = <<>>
    /\ effects_input = None
    /\ save_calls = 0
    /\ exports = <<>>

----------------------------------------------------------------------------
\* main, __init__ and load_config

\* An exception leaves run and main: main logs it and re-raises
Raise ==
    /\ pc' = "Aborted"
    /\ status' = "raised"

\* AudioPipeline(config_file): load_config returns the parsed document, or
\* re-raises FileNotFoundError / yaml.YAMLError
LoadConfig ==
    /\ pc = "Init"
    /\ IF config_file.status = "ok"
          THEN /\ config' = Some(config_file.doc)
               /\ pc' = "ConfigLoaded"
               /\ UNCHANGED status
          ELSE /\ Raise
               /\ UNCHANGED config
    /\ UNCHANGED <<config_file, input_exists, out_dir_exists, mix_segments,
                   concatenate_segments, audio_segments, mixed_audio,
                   concatenated_audio, result, decode_attempts, effects_input,
                   save_calls, exports>>

----------------------------------------------------------------------------
\* load_audio_files

\* Mutant: a file that fails to decode ends the loop
RECURSIVE LoadLoop_StopOnError(_, _, _, _)
LoadLoop_StopOnError(coll, files, i, acc) ==
    IF i > Len(files) THEN acc
    ELSE IF ~Decodable(files[i])
        THEN [segments |-> acc.segments, tried |-> Append(acc.tried, <<coll, files[i]>>)]
    ELSE LoadLoop_StopOnError(coll, files, i + 1,
            [segments |-> Append(acc.segments, from_file(coll, i, files[i])),
             tried |-> Append(acc.tried, <<coll, files[i]>>)])

\* for audio_file in files: try from_file and append, except: log.
\* Returns the collection and the files tried.
RECURSIVE LoadLoop(_, _, _, _)
LoadLoop(coll, files, i, acc) ==
    IF i > Len(files) THEN acc
    ELSE LoadLoop(coll, files, i + 1,
            [segments |-> IF Decodable(files[i])
                             THEN Append(acc.segments, from_file(coll, i, files[i]))
                             ELSE acc.segments,
             tried |-> Append(acc.tried, <<coll, files[i]>>)])

LoadList(coll, files) == LoadLoop(coll, files, 1, [segments |-> <<>>, tried |-> <<>>])

\* Mutant: the legacy list is loaded whatever the new-style lists hold
LegacyWanted_IgnoresNewLists(audio_files, mix_files, concatenate_files) ==
    audio_files # <<>>

\* Mutant: the check of the input folder is missing
InputFolderMissing_Unchecked == FALSE

\* if not os.path.exists(input_folder)
InputFolderMissing == ~input_exists

\* if audio_files and not mix_files and not concatenate_files
LegacyWanted(audio_files, mix_files, concatenate_files) ==
    audio_files # <<>> /\ mix_files = <<>> /\ concatenate_files = <<>>

LoadAudioFiles ==
    /\ pc = "ConfigLoaded"
    /\ IF InputFolderMissing
          THEN /\ Raise
               /\ UNCHANGED <<mix_segments, concatenate_segments, audio_segments,
                              decode_attempts>>
          ELSE LET mix_files == config[1].mix_files
                   concatenate_files == config[1].concatenate_files
                   audio_files == config[1].audio_files
                   m == LoadList("mix", mix_files)
                   c == LoadList("concatenate", concatenate_files)
                   a == IF LegacyWanted(audio_files, mix_files, concatenate_files)
                           THEN LoadList("legacy", audio_files)
                           ELSE [segments |-> <<>>, tried |-> <<>>]
               IN  /\ mix_segments' = m.segments
                   /\ concatenate_segments' = c.segments
                   /\ audio_segments' = a.segments
                   /\ decode_attempts' = m.tried \o c.tried \o a.tried
                   /\ pc' = "FilesLoaded"
                   /\ UNCHANGED status
    /\ UNCHANGED <<config_file, input_exists, out_dir_exists, config, mixed_audio,
                   concatenated_audio, result, effects_input, save_calls, exports>>

----------------------------------------------------------------------------
\* run: combination

\* The value of self.result after the new-style branch, given the two partial
\* results: "if mixed_audio and concatenated_audio: ... elif mixed_audio: ...
\* elif concatenated_audio: ..." (no branch taken leaves self.result as it was)
FinalCombine(mixed, concatenated, final_combine, old) ==
    IF Truthy(mixed) /\ Truthy(concatenated)
        THEN IF final_combine = "overlay"
                THEN Some(overlay(mixed[1], concatenated[1]))
                ELSE Some(append(mixed[1], concatenated[1]))
    ELSE IF Truthy(mixed) THEN mixed
    ELSE IF Truthy(concatenated) THEN concatenated
    ELSE old

\* if self.mix_segments or self.concatenate_segments
CombineNew ==
    /\ pc = "FilesLoaded"
    /\ mix_segments # <<>> \/ concatenate_segments # <<>>
    /\ LET mixed == IF mix_segments # <<>>
                       THEN Some(MixLoop(mix_segments[1], mix_segments, 2))
                       ELSE None
           concatenated == IF concatenate_segments # <<>>
                       THEN Some(ConcatLoop(concatenate_segments[1], concatenate_segments, 2))
                       ELSE None
           final_combine == Get(config[1].final_combine_method, "concatenate")
       IN  /\ mixed_audio' = mixed
           /\ concatenated_audio' = concatenated
           /\ result' = FinalCombine(mixed, concatenated, final_combine, result)
    /\ pc' = "Combined"
    /\ UNCHANGED <<config_file, input_exists, out_dir_exists, config, mix_segments,
                   concatenate_segments, audio_segments, status, decode_attempts,
                   effects_input, save_calls, exports>>

\* elif self.audio_segments
CombineLegacy ==
    /\ pc = "FilesLoaded"
    /\ mix_segments = <<>> /\ concatenate_segments = <<>>
    /\ audio_segments # <<>>
    /\ LET combine_method == Get(config[1].combine_method, "concatenate")
       IN  result' = IF combine_method = "mix"
                        THEN mix_audio_files(audio_segments)
                        ELSE concatenate_audio_files(audio_segments)
    /\ pc' = "Combined"
    /\ UNCHANGED <<config_file, input_exists, out_dir_exists, config, mix_segments,
                   concatenate_segments, audio_segments, mixed_audio,
                   concatenated_audio, status, decode_attempts, effects_input,
                   save_calls, exports>>

\* else: logger.error(...); return -- and main returns normally after run
NothingLoaded ==
    /\ pc = "FilesLoaded"
    /\ mix_segments = <<>> /\ concatenate_segments = <<>>
    /\ audio_segments = <<>>
    /\ pc' = "Aborted"
    /\ status' = "returned"
    /\ UNCHANGED <<config_file, input_exists, out_dir_exists, config, mix_segments,
                   concatenate_segments, audio_segments, mixed_audio,
                   concatenated_audio, result, decode_attempts, effects_input,
                   save_calls, exports>>

----------------------------------------------------------------------------
\* run: effects

\* if self.result: self.result = self.apply_effects(self.result)
ApplyEffects ==
    /\ pc = "Combined"
    /\ IF Truthy(result)
          THEN /\ effects_input' = result
               /\ result' = Some(apply_effects(result[1], config[1].effects))
          ELSE UNCHANGED <<effects_input, result>>
    /\ pc' = "EffectsApplied"
    /\ UNCHANGED <<config_file, input_exists, out_dir_exists, config, mix_segments,
                   concatenate_segments, audio_segments, mixed_audio,
                   concatenated_audio, status, decode_attempts, save_calls, exports>>

----------------------------------------------------------------------------
\* run: export

\* os.path.join(output_folder, f"{output_name}.{fmt}")
OutputPath(output_folder, output_name, fmt) == <<output_folder, output_name, fmt>>

\* One audio.export call: mp3 is given a bitrate, every other format the defaults
Export(audio, output_path, fmt) ==
    [path |-> output_path,
     format |-> fmt,
     bitrate |-> IF fmt = "mp3" THEN "192k" ELSE Absent,
     duration |-> Len(audio),
     ok |-> Encodable(fmt)]

\* Mutant: a format that fails to encode ends the loop
RECURSIVE SaveLoop_StopOnError(_, _, _, _, _, _)
SaveLoop_StopOnError(audio, output_folder, output_name, output_formats, i, done) ==
    IF i > Len(output_formats) THEN done
    ELSE IF ~Encodable(output_formats[i]) THEN done
    ELSE SaveLoop_StopOnError(audio, output_folder, output_name, output_formats, i + 1,
            Append(done, Export(audio,
                                OutputPath(output_folder, output_name, output_formats[i]),
                                output_formats[i])))

\* for fmt in output_formats: try export, except: log
RECURSIVE SaveLoop(_, _, _, _, _, _)
SaveLoop(audio, output_folder, output_name, output_formats, i, done) ==
    IF i > Len(output_formats) THEN done
    ELSE SaveLoop(audio, output_folder, output_name, output_formats, i + 1,
            Append(done, Export(audio,
                                OutputPath(output_folder, output_name, output_formats[i]),
                                output_formats[i])))

\* self.config.get('output_formats', ['mp3', 'wav'])
OutputFormats(cfg) ==
    IF cfg.has_output_formats THEN cfg.output_formats ELSE <<"mp3", "wav">>

\* self.config.get('output_folder', 'output_audio'): the key is never set here
OutputFolder(cfg) == "output_audio"

\* save_audio(audio, output_name): the export calls it makes
save_audio(audio, output_name, cfg) ==
    SaveLoop(audio, OutputFolder(cfg), output_name, OutputFormats(cfg), 1, <<>>)

\* if self.result: self.save_audio(self.result, output_name)
SaveAudio ==
    /\ pc = "EffectsApplied"
    /\ IF Truthy(result)
          THEN LET output_name == Get(config[1].output_name, "result")
               IN  /\ save_calls' = save_calls + 1
                   /\ out_dir_exists' = TRUE
                   /\ exports' = exports \o save_audio(result[1], output_name, config[1])
          ELSE UNCHANGED <<save_calls, out_dir_exists, exports>>
    /\ pc' = "Exported"
    /\ UNCHANGED <<config_file, input_exists, config, mix_segments,
                   concatenate_segments, audio_segments, mixed_audio,
                   concatenated_audio, result, status, decode_attempts, effects_input>>

\* "Pipeline terminé avec succès!": run returns, then main returns
Finish ==
    /\ pc = "Exported"
    /\ pc' = "Done"
    /\ status' = "returned"
    /\ UNCHANGED <<config_file, input_exists, out_dir_exists, config, mix_segments,
                   concatenate_segments, audio_segments, mixed_audio,
                   concatenated_audio, result, decode_attempts, effects_input,
                   save_calls, exports>>

Next ==
    \/ LoadConfig
    \/ LoadAudioFiles
    \/ CombineNew
    \/ CombineLegacy
    \/ NothingLoaded
    \/ ApplyEffects
    \/ SaveAudio
    \/ Finish

Spec == Init /\ [][Next]_vars

----------------------------------------------------------------------------
\* Properties

\* load_audio_files ran to its end
Loaded == pc \notin {"Init", "ConfigLoaded"} /\ config # None /\ input_exists

\* The combination step of run has completed
AfterCombine == pc \in {"Combined", "EffectsApplied", "Exported", "Done"}

NoneLoaded == mix_segments = <<>> /\ concatenate_segments = <<>> /\ audio_segments = <<>>

\* C1: whenever nothing was loaded under any pathway, the run ends Aborted and
\* the caller of main sees an error, never a normal return.
C1_NothingLoadedIsAnError ==
    (Loaded /\ NoneLoaded /\ status # "running") => (pc = "Aborted" /\ status = "raised")

\* C2: every run that ends in Done has applied the effect chain to the
\* combined buffer and attempted one export per configured output format.
C2_DoneAppliedEffectsAndExported ==
    pc = "Done" =>
        /\ effects_input # None
        /\ save_calls = 1
        /\ Len(exports) = Len(OutputFormats(config[1]))

\* A cause of abort: the configuration is missing or unparsable, the input
\* folder is absent, or loading left every collection empty
AbortCause ==
    \/ config_file.status # "ok"
    \/ ~input_exists
    \/ Loaded /\ NoneLoaded

\* C3: in every run that aborts (configuration missing or unparsable, input
\* folder absent, nothing loaded) no export is attempted, the output folder is
\* not created and save_audio is never entered.
C3_AbortWritesNothing ==
    (pc = "Aborted" \/ AbortCause) =>
        (exports = <<>> /\ save_calls = 0 /\ ~out_dir_exists)

C3_Witness ==
    /\ pc = "Aborted"
    /\ config # None
    /\ ~input_exists
    /\ config[1].mix_files # <<>>
    /\ Decodable(config[1].mix_files[1])

Max2(a, b) == IF a >= b THEN a ELSE b

\* The configuration of C4: two decodable mix files, nothing else but
\* output_formats = ["wav"]
C4_Config ==
    /\ config # None
    /\ Len(config[1].mix_files) = 2
    /\ Decodable(config[1].mix_files[1]) /\ Decodable(config[1].mix_files[2])
    /\ config[1].concatenate_files = <<>>
    /\ config[1].effects = <<>>
    /\ config[1].has_output_formats /\ config[1].output_formats = <<"wav">>
    /\ config[1].output_name = Absent

\* C4: with mix_files = [a, b], no concatenate_files, no effects and
\* output_formats = ["wav"], exactly one file result.wav is written and its
\* duration is max(duration(a), duration(b)).  Stated here for files of
\* non-zero duration, where the run does export.
C4_MixOfTwoLastsTheLonger ==
    (pc = "Done" /\ C4_Config /\ config[1].mix_files[1] > 0 /\ config[1].mix_files[2] > 0) =>
        /\ Len(exports) = 1
        /\ exports[1].path = <<"output_audio", "result", "wav">>
        /\ exports[1].ok
        /\ exports[1].duration = Max2(config[1].mix_files[1], config[1].mix_files[2])

\* C5: when the mix and the concatenate collections are both non-empty, the
\* result is the concatenated result overlaid on the mixed one for
\* final_combine_method = "overlay" and the mixed one followed by the
\* concatenated one otherwise; when only one is non-empty, the result is that one.
C5_DualCombination ==
    (pc = "Combined" /\ (mix_segments # <<>> \/ concatenate_segments # <<>>)) =>
        IF mix_segments # <<>> /\ concatenate_segments # <<>>
            THEN /\ mixed_audio # None /\ concatenated_audio # None
                 /\ result = IF config[1].final_combine_method = "overlay"
                                THEN Some(overlay(mixed_audio[1], concatenated_audio[1]))
                                ELSE Some(mixed_audio[1] \o concatenated_audio[1])
        ELSE IF mix_segments # <<>>
            THEN mixed_audio # None /\ result = mixed_audio
            ELSE concatenated_audio # None /\ result = concatenated_audio

\* Total duration of the first n buffers of a sequence
RECURSIVE SumLen(_, _)
SumLen(segments, n) ==
    IF n = 0 THEN 0 ELSE SumLen(segments, n - 1) + Len(segments[n])

\* buf is the buffers of segments one after the other, in order
IsConcatenationOf(buf, segments) ==
    /\ Len(buf) = SumLen(segments, Len(segments))
    /\ \A k \in 1..Len(segments) : \A i \in 1..Len(segments[k]) :
          buf[SumLen(segments, k - 1) + i] = segments[k][i]

\* The legacy collection is combined, and by concatenation
LegacyConcatenated ==
    /\ AfterCombine
    /\ mix_segments = <<>> /\ concatenate_segments = <<>>
    /\ audio_segments # <<>>
    /\ config[1].combine_method # "mix"

\* C6: concatenating a non-empty sequence of buffers (the concatenate
\* collection, and the legacy collection unless combine_method is "mix") gives
\* the inputs in input order, so a duration that is the sum of theirs; an
\* export of the legacy concatenation without effects has that duration.
C6_ConcatenationIsSumInOrder ==
    /\ (AfterCombine /\ concatenate_segments # <<>>) =>
          /\ concatenated_audio # None
          /\ IsConcatenationOf(concatenated_audio[1], concatenate_segments)
    /\ (LegacyConcatenated /\ pc = "Combined") =>
          /\ result # None
          /\ IsConcatenationOf(result[1], audio_segments)
    /\ (LegacyConcatenated /\ config[1].effects = <<>>) =>
          \A i \in 1..Len(exports) :
             exports[i].duration = SumLen(audio_segments, Len(audio_segments))

C6_Witness ==
    /\ LegacyConcatenated
    /\ pc = "Done"
    /\ config[1].combine_method = "concatenate"
    /\ Len(audio_segments) = 2
    /\ Len(audio_segments[1]) = 2 /\ Len(audio_segments[2]) = 1
    /\ exports # <<>>
    /\ exports[1].duration = 3

\* An effect specification that names one of the six effects
Recognized(effect) ==
    /\ "type" \in DOMAIN effect
    /\ effect.type \in {"volume", "speed", "fade", "reverse", "normalize", "repeat"}

\* The left-to-right fold of an effect list over a buffer: the last effect is
\* applied to the fold of the ones before it, an unknown one changes nothing
RECURSIVE FoldEffects(_, _)
FoldEffects(buf, effects) ==
    IF effects = <<>> THEN buf
    ELSE LET before == FoldEffects(buf, SubSeq(effects, 1, Len(effects) - 1))
             last == effects[Len(effects)]
         IN  IF Recognized(last) THEN Dispatch(last.type, before, last) ELSE before

\* C7: apply_effects returns the left-to-right fold of the configured effects
\* over its input; a step of unknown type leaves the buffer as it is and the
\* later steps still apply; an empty list returns the input unchanged.
C7_EffectsAreFoldedInOrder ==
    effects_input # None =>
        /\ result # None
        /\ result[1] = FoldEffects(effects_input[1], config[1].effects)
        /\ result[1] = FoldEffects(effects_input[1], SelectSeq(config[1].effects, Recognized))
        /\ config[1].effects = <<>> => result = effects_input

C7_Witness ==
    /\ pc = "EffectsApplied"
    /\ effects_input # None
    /\ Len(config[1].effects) = 2
    /\ ~Recognized(config[1].effects[1])
    /\ config[1].effects[2].type = "reverse"
    /\ Len(effects_input[1]) = 2
    /\ result # effects_input

\* The buffers of the entries of files that decode, in the order of files
DecodedOf(coll, files) ==
    LET idx == SelectSeq([k \in 1..Len(files) |-> k], LAMBDA k : Decodable(files[k]))
    IN  [j \in 1..Len(idx) |-> from_file(coll, idx[j], files[idx[j]])]

\* Every entry of files, tagged with its collection
EntriesOf(coll, files) == [k \in 1..Len(files) |-> <<coll, files[k]>>]

\* C8 as stated: after load_audio_files each of the three collections is the
\* subsequence of its configured list that decodes, in configuration order.
C8_EachCollectionIsItsDecodedList ==
    Loaded =>
        /\ mix_segments = DecodedOf("mix", config[1].mix_files)
        /\ concatenate_segments = DecodedOf("concatenate", config[1].concatenate_files)
        /\ audio_segments = DecodedOf("legacy", config[1].audio_files)

\* C8, amended: the mix and concatenate collections are the subsequences of
\* their lists that decode, in order; the legacy collection is that
\* subsequence of audio_files when mix_files and concatenate_files are both
\* empty, and empty otherwise; every entry of a list that is loaded is
\* attempted, whatever failed before it.
C8_CollectionsAreDecodedLists ==
    Loaded =>
        LET legacy == config[1].mix_files = <<>> /\ config[1].concatenate_files = <<>>
        IN  /\ mix_segments = DecodedOf("mix", config[1].mix_files)
            /\ concatenate_segments = DecodedOf("concatenate", config[1].concatenate_files)
            /\ audio_segments = IF legacy THEN DecodedOf("legacy", config[1].audio_files)
                                ELSE <<>>
            /\ decode_attempts = EntriesOf("mix", config[1].mix_files)
                                 \o EntriesOf("concatenate", config[1].concatenate_files)
                                 \o (IF legacy THEN EntriesOf("legacy", config[1].audio_files)
                                     ELSE <<>>)

C8_Witness ==
    /\ pc = "FilesLoaded"
    /\ Len(config[1].mix_files) = 2
    /\ ~Decodable(config[1].mix_files[1])
    /\ Decodable(config[1].mix_files[2])
    /\ Len(mix_segments) = 1
    /\ config[1].audio_files # <<>>
    /\ Decodable(config[1].audio_files[1])

\* C9: save_audio attempts one export per entry of output_formats, in order,
\* to output_folder/output_name.format; a failing export stops neither the
\* later ones nor the run.
C9_OneExportPerFormat ==
    save_calls > 0 =>
        LET formats == OutputFormats(config[1])
        IN  /\ save_calls = 1
            /\ pc \in {"Exported", "Done"}
            /\ status # "raised"
            /\ Len(exports) = Len(formats)
            /\ \A i \in 1..Len(formats) :
                  /\ exports[i].format = formats[i]
                  /\ exports[i].path =
                        <<"output_audio", Get(config[1].output_name, "result"), formats[i]>>

C9_Witness ==
    /\ pc = "Done"
    /\ status = "returned"
    /\ Len(exports) = 2
    /\ ~exports[1].ok
    /\ exports[2].ok
    /\ exports[2].path = <<"output_audio", "result", "wav">>

\* The collections that the voices of a buffer come from
Origins(opt) ==
    IF opt = None THEN {}
    ELSE {v[1] : v \in UNION {opt[1][i] : i \in 1..Len(opt[1])}}

\* buf is the buffers of segments summed from offset 0 onto the first one
IsMixOf(buf, segments) ==
    /\ Len(buf) = Len(segments[1])
    /\ \A i \in 1..Len(buf) :
          buf[i] = UNION {segments[k][i] : k \in {j \in 1..Len(segments) : i <= Len(segments[j])}}

\* C10: the legacy collection is populated only when the configured mix_files
\* and concatenate_files are both empty, so never together with a new-style
\* collection; run combines it only when both new-style collections are empty
\* (combine_method "mix" mixes, anything else concatenates); the result never
\* holds buffers of both the legacy list and a new-style list.
C10_LegacyExclusive ==
    /\ audio_segments # <<>> =>
          /\ config[1].mix_files = <<>> /\ config[1].concatenate_files = <<>>
          /\ mix_segments = <<>> /\ concatenate_segments = <<>>
    /\ (mix_segments # <<>> \/ concatenate_segments # <<>>) =>
          Origins(result) \subseteq {"mix", "concatenate"}
    /\ "legacy" \in Origins(result) => Origins(result) = {"legacy"}
    /\ (pc = "Combined" /\ audio_segments # <<>>) =>
          /\ result # None
          /\ IF config[1].combine_method = "mix"
                THEN IsMixOf(result[1], audio_segments)
                ELSE IsConcatenationOf(result[1], audio_segments)

C10_Witness ==
    /\ pc = "Combined"
    /\ config[1].audio_files # <<>>
    /\ Decodable(config[1].audio_files[1])
    /\ config[1].audio_files[1] > 0
    /\ mix_segments # <<>>
    /\ audio_segments = <<>>
    /\ Origins(result) = {"mix"}

====
